---- MODULE Spec2Model ----
(***************************************************************************)
(* Scatter-gather layer of the XDmaChannel driver (xdma_channel_sg.c).     *)
(* The channel instance, the descriptor ring in uncached memory and the    *)
(* channel registers are the state; one action per driver entry point,     *)
(* plus the steps of the DMA engine that walks the ring on its own.        *)
(***************************************************************************)
EXTENDS Integers, Sequences, FiniteSets, TLC

\* ------------------------------------------------------------------ bounds
MaxSlots == 3
MaxPackets == 2
MaxLocked == 1
MaxUPC == 12

\* ------------------------------------------------------- program constants
NULL == 0
SizeofBD == 40

\* status codes of xstatus.h, by name
XST_SUCCESS == "Success"
XST_DMA_SG_NO_LIST == "NoList"
XST_DMA_SG_LIST_EMPTY == "ListEmpty"
XST_DMA_SG_LIST_FULL == "ListFull"
XST_DMA_SG_LIST_EXISTS == "ListExists"
XST_DMA_SG_BD_LOCKED == "BdLocked"
XST_DMA_SG_NOTHING_TO_COMMIT == "NothingToCommit"
XST_DMA_SG_IS_STARTED == "IsStarted"
XST_DMA_SG_IS_STOPPED == "IsStopped"
XST_DMA_SG_BD_NOT_COMMITTED == "BdNotCommitted"
XST_DMA_SG_NO_DATA == "NoData"

\* ------------------------------------------------------------------ inputs
\* MemoryPtr / PhyPtr arguments of CreateSgList (non-null, 4-byte aligned)
MemoryPtrs == {64}
PhyPtrs == {16}
\* ByteCount arguments: whole descriptors, and whole descriptors plus a rest
ByteCounts == {SizeofBD * n + r : n \in 1..MaxSlots, r \in {0, SizeofBD - 4}}
Ids == {1}

VARIABLES
    VirtPtr, PhyPtr,            \* anchors of the descriptor region
    TotalDescriptorCount,
    ActiveDescriptorCount,
    ActivePacketCount,
    PutPtr, GetPtr, CommitPtr, LastPtr,
    Committed,
    ring,                       \* descriptor memory: virtual address -> BD
    SWCR, DMACR, BDA,           \* channel registers
    hwBd,                       \* physical address of the BD the engine has in flight
    hwSeeded,                   \* BDA was written by software and names the BD to run
    UPC,                        \* unserviced packet count register
    Register,                   \* the local of DecrementPktCount: the count it read
    pc,                         \* position of the one software thread
    evt,                        \* the last step taken and what it returned
    staged,                     \* slots Put since the last successful Commit,
                                \* oldest first
    fifo,                       \* slots Put and not yet Got, oldest first
    hwNewer,                    \* slots whose descriptor was Put after the one the
                                \* engine took up last
    pinned,                     \* slots the caller locked after getting them
    overtaken,                  \* a Get has returned a descriptor the engine had
                                \* not finished
    round                       \* the round of Puts, one Commit and Gets under
                                \* observation, and the cursors it began with

chan == <<VirtPtr, PhyPtr, TotalDescriptorCount, ActiveDescriptorCount,
          ActivePacketCount, PutPtr, GetPtr, CommitPtr, LastPtr, Committed>>
regs == <<SWCR, DMACR, BDA>>
hw == <<hwBd, hwSeeded>>
upc == <<UPC, Register>>
ghost == <<staged, fifo, hwNewer, pinned, overtaken, round>>
vars == <<chan, ring, regs, hw, upc, pc, evt, ghost>>

\* ------------------------------------------------------- descriptor values
\* control word: stop (XDC_DMACR_SG_DISABLE_MASK) and last (last-in-packet);
\* status word: busy (XDC_DMASR_BUSY_MASK); flags word: locked; the source,
\* destination, length and requested length words are carried as they are.
XBufDescriptor_Initialize ==
    [stop |-> FALSE, last |-> FALSE, busy |-> FALSE, devStatus |-> 0,
     locked |-> FALSE, id |-> 0, next |-> NULL,
     source |-> 0, destination |-> 0, length |-> 0, rqstedLength |-> 0]

NoBD == XBufDescriptor_Initialize

\* descriptors the caller hands to PutDescriptor
SrcBDs ==
    [stop : {FALSE}, last : BOOLEAN, busy : {FALSE}, devStatus : {1},
     locked : BOOLEAN, id : Ids, next : {NULL},
     source : {2}, destination : {3}, length : {4}, rqstedLength : {5}]

\* a copy of the whole descriptor, next pointer included
CopyBufferDescriptor_WithNext(src, dst) == src

\* every field but the next pointer
CopyBufferDescriptor(src, dst) ==
    [dst EXCEPT !.stop = src.stop, !.last = src.last, !.busy = src.busy,
                !.devStatus = src.devStatus, !.locked = src.locked,
                !.id = src.id,
                !.source = src.source, !.destination = src.destination,
                !.length = src.length, !.rqstedLength = src.rqstedLength]

\* ------------------------------------------------------------- address map
\* The u32 difference wraps when the operand lies below the base and the sum
\* wraps back, so on addresses of the region the result is the plain integer sum.
P_TO_V(p) ==
    IF p # NULL THEN VirtPtr + (p - PhyPtr) ELSE NULL

V_TO_P(v) ==
    IF v # NULL THEN PhyPtr + (v - VirtPtr) ELSE NULL

\* The same pair at the width of the u32 casts. A u32 is written as its two
\* 16-bit halves <<high, low>>, and sums and differences are taken modulo 2^32.
Half == 65536

U32(n) == <<(n \div Half) % Half, n % Half>>

NULL32 == <<0, 0>>

Add32(a, b) ==
    <<(a[1] + b[1] + ((a[2] + b[2]) \div Half)) % Half, (a[2] + b[2]) % Half>>

Sub32(a, b) ==
    <<(a[1] - b[1] + Half - 1 + ((a[2] - b[2] + Half) \div Half)) % Half,
      (a[2] - b[2] + Half) % Half>>

P_TO_V32(p) ==
    IF p # NULL32 THEN Add32(VirtPtr, Sub32(p, PhyPtr)) ELSE NULL32

V_TO_P32(v) ==
    IF v # NULL32 THEN Add32(PhyPtr, Sub32(v, VirtPtr)) ELSE NULL32

\* ---------------------------------------------------------------- registers
\* DMA status register: the SG-busy bit is up while the engine has a BD in flight
DMASR_SG_BUSY == hwBd # NULL

\* the descriptor the hardware sees at physical address p
Mem(p) == ring[P_TO_V(p)]

Event(op, rc, bd) ==
    [op |-> op, rc |-> rc, bd |-> bd, arg |-> NoBD, src |-> NoBD,
     ByteCount |-> 0, sgWasEnabled |-> FALSE, wrote |-> 0, count |-> 0,
     uncommitted |-> FALSE, stale |-> FALSE, outOfOrder |-> FALSE]

\* ------------------------------------------------------------------ rounds
\* A round is k successful Puts, one successful Commit and k successful Gets,
\* in that order and with no other successful Put, Commit or Get between them.
\* It is watched from an empty list with no commit pending; any other order
\* ends the watch.
RoundOff ==
    [phase |-> "off", PutPtr |-> NULL, GetPtr |-> NULL, LastPtr |-> NULL,
     k |-> 0, g |-> 0]

RoundPut ==
    IF round.phase = "put" THEN [round EXCEPT !.k = @ + 1] ELSE RoundOff

RoundCommit ==
    IF round.phase = "put" /\ round.k >= 1
    THEN [round EXCEPT !.phase = "get"]
    ELSE RoundOff

RoundGet ==
    IF round.phase = "get"
    THEN [round EXCEPT !.g = @ + 1,
                       !.phase = IF round.g + 1 = round.k THEN "done" ELSE "get"]
    ELSE RoundOff

\* the watch begins: the cursors are noted
RoundBegin ==
    /\ pc = "ready"
    /\ TotalDescriptorCount # 0
    /\ ActiveDescriptorCount = 0
    /\ CommitPtr = NULL
    /\ round.phase \in {"off", "done"}
    /\ round' = [phase |-> "put", PutPtr |-> PutPtr, GetPtr |-> GetPtr,
                 LastPtr |-> LastPtr, k |-> 0, g |-> 0]
    /\ UNCHANGED <<upc, chan, ring, regs, hw, pc, evt,
                   staged, fifo, hwNewer, pinned, overtaken>>

\* -------------------------------------------------------------------- Init
Init ==
    /\ VirtPtr = NULL /\ PhyPtr = NULL
    /\ TotalDescriptorCount = 0
    /\ ActiveDescriptorCount = 0
    /\ ActivePacketCount = 0
    /\ PutPtr = NULL /\ GetPtr = NULL /\ CommitPtr = NULL /\ LastPtr = NULL
    /\ Committed = FALSE
    /\ ring = <<>>
    /\ SWCR = [sg_enable |-> FALSE, rest |-> 1]
    /\ DMACR = [sg_disable |-> TRUE, rest |-> 1]
    /\ BDA = NULL
    /\ hwBd = NULL
    /\ hwSeeded = FALSE
    /\ UPC = 0
    /\ Register = 0
    /\ pc = "ready"
    /\ evt = Event("Initialize", XST_SUCCESS, NULL)
    /\ staged = <<>>
    /\ fifo = <<>>
    /\ hwNewer = {}
    /\ pinned = {}
    /\ overtaken = FALSE
    /\ round = RoundOff

\* ------------------------------------------------------------ CreateSgList
\* loop that stops one descriptor short of a region of whole descriptors
RECURSIVE CreateCount_Strict(_, _)
CreateCount_Strict(UsedByteCount, ByteCount) ==
    IF UsedByteCount + SizeofBD < ByteCount
    THEN 1 + CreateCount_Strict(UsedByteCount + SizeofBD, ByteCount)
    ELSE 0

RECURSIVE CreateCount(_, _)
CreateCount(UsedByteCount, ByteCount) ==
    IF UsedByteCount + SizeofBD <= ByteCount
    THEN 1 + CreateCount(UsedByteCount + SizeofBD, ByteCount)
    ELSE 0

\* BufferDescriptorPtr when the loop is left: the last descriptor created
CreateLast(MemoryPtr, n) == MemoryPtr + (n - 1) * SizeofBD

CreateRing(MemoryPtr, n, Phy) ==
    [v \in {MemoryPtr + i * SizeofBD : i \in 0..(n - 1)} |->
        [XBufDescriptor_Initialize EXCEPT
            !.next = IF v = CreateLast(MemoryPtr, n)
                     THEN Phy
                     ELSE Phy + (v - MemoryPtr) + SizeofBD]]

\* creation that does not look for a list already there
CreateStatus_NoExistsCheck == XST_SUCCESS

CreateStatus ==
    IF TotalDescriptorCount # 0 THEN XST_DMA_SG_LIST_EXISTS ELSE XST_SUCCESS

XDmaChannel_CreateSgList(MemoryPtr, ByteCount, Phy) ==
    /\ pc = "ready"
    /\ IF CreateStatus # XST_SUCCESS
       THEN /\ evt' = Event("CreateSgList", CreateStatus, NULL)
            /\ UNCHANGED <<chan, ring>>
       ELSE /\ VirtPtr' = MemoryPtr
            /\ PhyPtr' = Phy
            /\ TotalDescriptorCount' = CreateCount(0, ByteCount)
            /\ ring' = CreateRing(MemoryPtr, CreateCount(0, ByteCount), Phy)
            /\ PutPtr' = CreateLast(MemoryPtr, CreateCount(0, ByteCount))
            /\ GetPtr' = CreateLast(MemoryPtr, CreateCount(0, ByteCount))
            /\ CommitPtr' = NULL
            /\ LastPtr' = CreateLast(MemoryPtr, CreateCount(0, ByteCount))
            /\ ActiveDescriptorCount' = 0
            /\ ActivePacketCount' = 0
            /\ Committed' = FALSE
            /\ evt' = [Event("CreateSgList", XST_SUCCESS, NULL)
                          EXCEPT !.ByteCount = ByteCount]
    /\ UNCHANGED <<upc, regs, hw, pc, ghost>>

XDmaChannel_IsSgListEmpty == ActiveDescriptorCount = 0

\* CreateSgList on u32 addresses. MemoryPtr is non-null and 4-byte aligned;
\* nothing is asked of PhyPtr.
MemoryPtrs32 == {U32(64), <<49152, 4096>>, <<65535, 0>>}
PhyPtrs32 == {NULL32, U32(16), <<8192, 0>>, <<65535, 32768>>}

Slot32(base, i) == Add32(base, U32(i * SizeofBD))

\* V_TO_P before VirtPtr and PhyPtr are read back from the instance
CreateV_TO_P32(v, MemoryPtr, Phy) ==
    IF v # NULL32 THEN Add32(Phy, Sub32(v, MemoryPtr)) ELSE NULL32

CreateRing32(MemoryPtr, n, Phy) ==
    [v \in {Slot32(MemoryPtr, i) : i \in 0..(n - 1)} |->
        [XBufDescriptor_Initialize EXCEPT
            !.next = IF v = Slot32(MemoryPtr, n - 1)
                     THEN CreateV_TO_P32(MemoryPtr, MemoryPtr, Phy)
                     ELSE CreateV_TO_P32(Add32(v, U32(SizeofBD)), MemoryPtr, Phy)]]

XDmaChannel_CreateSgList32(MemoryPtr, ByteCount, Phy) ==
    /\ pc = "ready"
    /\ IF CreateStatus # XST_SUCCESS
       THEN /\ evt' = Event("CreateSgList", CreateStatus, NULL32)
            /\ UNCHANGED <<chan, ring>>
       ELSE /\ VirtPtr' = MemoryPtr
            /\ PhyPtr' = Phy
            /\ TotalDescriptorCount' = CreateCount(0, ByteCount)
            /\ ring' = CreateRing32(MemoryPtr, CreateCount(0, ByteCount), Phy)
            /\ PutPtr' = Slot32(MemoryPtr, CreateCount(0, ByteCount) - 1)
            /\ GetPtr' = Slot32(MemoryPtr, CreateCount(0, ByteCount) - 1)
            /\ CommitPtr' = NULL32
            /\ LastPtr' = Slot32(MemoryPtr, CreateCount(0, ByteCount) - 1)
            /\ ActiveDescriptorCount' = 0
            /\ ActivePacketCount' = 0
            /\ Committed' = FALSE
            /\ evt' = [Event("CreateSgList", XST_SUCCESS, NULL32)
                          EXCEPT !.ByteCount = ByteCount]
    /\ UNCHANGED <<upc, regs, hw, pc, ghost>>

\* the addresses the hardware has for the descriptors of the region
HwSlots32 == {Slot32(PhyPtr, i) : i \in 0..(TotalDescriptorCount - 1)}

\* a use of V_TO_P on a descriptor of the list or on the null pointer; the
\* event keeps the argument in bd and the result in arg
Translate_V_TO_P ==
    /\ pc = "ready"
    /\ TotalDescriptorCount # 0
    /\ \E v \in DOMAIN ring \cup {NULL32} :
          evt' = [Event("V_TO_P", XST_SUCCESS, v) EXCEPT !.arg = V_TO_P32(v)]
    /\ UNCHANGED <<upc, chan, ring, regs, hw, pc, ghost>>

\* a use of P_TO_V on what a next field or the BDA register can hold
Translate_P_TO_V ==
    /\ pc = "ready"
    /\ TotalDescriptorCount # 0
    /\ \E p \in HwSlots32 \cup {NULL32} \cup {ring[v].next : v \in DOMAIN ring} :
          evt' = [Event("P_TO_V", XST_SUCCESS, p) EXCEPT !.arg = P_TO_V32(p)]
    /\ UNCHANGED <<upc, chan, ring, regs, hw, pc, ghost>>

\* ----------------------------------------------------------- PutDescriptor
\* Put that does not look at the locked flag
PutStatus_NoLockCheck ==
    IF TotalDescriptorCount = 0 THEN XST_DMA_SG_NO_LIST
    ELSE IF ActiveDescriptorCount = TotalDescriptorCount
         THEN XST_DMA_SG_LIST_FULL
    ELSE XST_SUCCESS

\* Put that does not test for the full list
PutStatus_NoFullCheck ==
    IF TotalDescriptorCount = 0 THEN XST_DMA_SG_NO_LIST
    ELSE IF ring[PutPtr].locked THEN XST_DMA_SG_BD_LOCKED
    ELSE XST_SUCCESS

\* Put that tests the locked flag before the full list
PutStatus_LockedFirst ==
    IF TotalDescriptorCount = 0 THEN XST_DMA_SG_NO_LIST
    ELSE IF ring[PutPtr].locked THEN XST_DMA_SG_BD_LOCKED
    ELSE IF ActiveDescriptorCount = TotalDescriptorCount
         THEN XST_DMA_SG_LIST_FULL
    ELSE XST_SUCCESS

\* the three refusals, in the order the code tests them
PutStatus ==
    IF TotalDescriptorCount = 0 THEN XST_DMA_SG_NO_LIST
    ELSE IF ActiveDescriptorCount = TotalDescriptorCount
         THEN XST_DMA_SG_LIST_FULL
    ELSE IF ring[PutPtr].locked THEN XST_DMA_SG_BD_LOCKED
    ELSE XST_SUCCESS

\* Put that leaves both statuses as the caller gave them
PutSource_KeepsStatus(src) ==
    [src EXCEPT !.stop = TRUE]

\* Put that leaves the stop bit of the new tail as the caller gave it
PutSource_NoStop(src) ==
    [src EXCEPT !.busy = TRUE, !.devStatus = 0]

\* what Put writes into the caller's descriptor before copying it
PutSource(src) ==
    [src EXCEPT !.stop = TRUE, !.busy = TRUE, !.devStatus = 0]

\* Put that never enables scatter gather in the previous tail
PutClearsLast_Never == FALSE

\* Put that enables scatter gather in the previous tail whenever a commit
\* is pending
PutClearsLast_NoHeadCheck == CommitPtr # NULL

\* Put enables scatter gather in the previous tail
PutClearsLast == (CommitPtr # LastPtr) /\ (CommitPtr # NULL)

\* Put that activates the commit pointer on the slot it writes
PutCommitPtr_PutPtr == IF CommitPtr = NULL THEN PutPtr ELSE CommitPtr

\* Put that never activates the commit pointer
PutCommitPtr_Unset == CommitPtr

\* the commit pointer is activated by the first Put after a Commit
PutCommitPtr == IF CommitPtr = NULL THEN LastPtr ELSE CommitPtr

PutRing(src) ==
    LET copied == [ring EXCEPT ![PutPtr] = CopyBufferDescriptor(PutSource(src), @)]
    IN  IF PutClearsLast
        THEN [copied EXCEPT ![LastPtr].stop = FALSE]
        ELSE copied

XDmaChannel_PutDescriptor(src) ==
    /\ pc = "ready"
    /\ src.last => ActivePacketCount < MaxPackets
    /\ IF PutStatus # XST_SUCCESS
       THEN /\ evt' = [Event("Put", PutStatus, NULL) EXCEPT !.arg = src, !.src = src]
            /\ UNCHANGED <<chan, ring, staged, fifo, hwNewer, round>>
       ELSE /\ ring' = PutRing(src)
            /\ ActivePacketCount' =
                 IF CopyBufferDescriptor(PutSource(src), ring[PutPtr]).last
                 THEN ActivePacketCount + 1
                 ELSE ActivePacketCount
            /\ ActiveDescriptorCount' = ActiveDescriptorCount + 1
            /\ CommitPtr' = PutCommitPtr
            /\ LastPtr' = PutPtr
            /\ PutPtr' = P_TO_V(PutRing(src)[PutPtr].next)
            /\ staged' = Append(SelectSeq(staged, LAMBDA v : v # PutPtr), PutPtr)
            /\ fifo' = Append(SelectSeq(fifo, LAMBDA v : v # PutPtr), PutPtr)
            /\ hwNewer' = hwNewer \cup {PutPtr}
            /\ round' = RoundPut
            /\ evt' = [Event("Put", XST_SUCCESS, PutPtr) EXCEPT
                          !.arg = src, !.src = PutSource(src)]
            /\ UNCHANGED <<VirtPtr, PhyPtr, TotalDescriptorCount, GetPtr, Committed>>
    /\ UNCHANGED <<upc, regs, hw, pc, pinned, overtaken>>

\* Put again, statement by statement, for the callers that can be interrupted
\* between two statements.
PutPositions ==
    {"Put_copied", "Put_cleared", "Put_counted", "Put_commitptr", "Put_lastptr"}

\* the refusals, the writes to the caller's descriptor, the copy into the
\* list and the packet count
XDmaChannel_PutDescriptor_Copy(src) ==
    /\ pc = "ready"
    /\ src.last => ActivePacketCount < MaxPackets
    /\ IF PutStatus # XST_SUCCESS
       THEN /\ evt' = [Event("Put", PutStatus, NULL) EXCEPT !.arg = src, !.src = src]
            /\ UNCHANGED <<ActivePacketCount, ring, pc, staged, fifo, hwNewer>>
       ELSE /\ ring' = [ring EXCEPT
                          ![PutPtr] = CopyBufferDescriptor(PutSource(src), @)]
            /\ ActivePacketCount' =
                 IF CopyBufferDescriptor(PutSource(src), ring[PutPtr]).last
                 THEN ActivePacketCount + 1
                 ELSE ActivePacketCount
            /\ pc' = "Put_copied"
            /\ staged' = Append(SelectSeq(staged, LAMBDA v : v # PutPtr), PutPtr)
            /\ fifo' = Append(SelectSeq(fifo, LAMBDA v : v # PutPtr), PutPtr)
            /\ hwNewer' = hwNewer \cup {PutPtr}
            /\ evt' = [Event("Put_copy", XST_SUCCESS, PutPtr) EXCEPT
                          !.arg = src, !.src = PutSource(src)]
    /\ UNCHANGED <<VirtPtr, PhyPtr, TotalDescriptorCount, ActiveDescriptorCount,
                   PutPtr, GetPtr, CommitPtr, LastPtr, Committed>>
    /\ UNCHANGED <<upc, regs, hw, pinned, overtaken, round>>

\* scatter gather is enabled in the previous tail
XDmaChannel_PutDescriptor_Clear ==
    /\ pc = "Put_copied"
    /\ ring' = IF PutClearsLast
               THEN [ring EXCEPT ![LastPtr].stop = FALSE]
               ELSE ring
    /\ pc' = "Put_cleared"
    /\ UNCHANGED <<upc, chan, regs, hw, evt, ghost>>

\* ActiveDescriptorCount++
XDmaChannel_PutDescriptor_Count ==
    /\ pc = "Put_cleared"
    /\ ActiveDescriptorCount' = ActiveDescriptorCount + 1
    /\ pc' = "Put_counted"
    /\ UNCHANGED <<VirtPtr, PhyPtr, TotalDescriptorCount, ActivePacketCount,
                   PutPtr, GetPtr, CommitPtr, LastPtr, Committed>>
    /\ UNCHANGED <<upc, ring, regs, hw, evt, ghost>>

\* the commit pointer is activated
XDmaChannel_PutDescriptor_CommitPtr ==
    /\ pc = "Put_counted"
    /\ CommitPtr' = PutCommitPtr
    /\ pc' = "Put_commitptr"
    /\ UNCHANGED <<VirtPtr, PhyPtr, TotalDescriptorCount, ActiveDescriptorCount,
                   ActivePacketCount, PutPtr, GetPtr, LastPtr, Committed>>
    /\ UNCHANGED <<upc, ring, regs, hw, evt, ghost>>

\* LastPtr = PutPtr
XDmaChannel_PutDescriptor_LastPtr ==
    /\ pc = "Put_commitptr"
    /\ LastPtr' = PutPtr
    /\ pc' = "Put_lastptr"
    /\ UNCHANGED <<VirtPtr, PhyPtr, TotalDescriptorCount, ActiveDescriptorCount,
                   ActivePacketCount, PutPtr, GetPtr, CommitPtr, Committed>>
    /\ UNCHANGED <<upc, ring, regs, hw, evt, ghost>>

\* PutPtr moves to the next descriptor and Put returns
XDmaChannel_PutDescriptor_PutPtr ==
    /\ pc = "Put_lastptr"
    /\ PutPtr' = P_TO_V(ring[PutPtr].next)
    /\ pc' = "ready"
    /\ evt' = [Event("Put", XST_SUCCESS, PutPtr) EXCEPT
                  !.arg = evt.arg, !.src = evt.src]
    /\ UNCHANGED <<VirtPtr, PhyPtr, TotalDescriptorCount, ActiveDescriptorCount,
                   ActivePacketCount, GetPtr, CommitPtr, LastPtr, Committed>>
    /\ UNCHANGED <<upc, ring, regs, hw, ghost>>

\* -------------------------------------------------------------- CommitPuts
\* Commit that does not test for the empty list
CommitStatus_NoEmptyCheck ==
    IF CommitPtr = NULL THEN XST_DMA_SG_NOTHING_TO_COMMIT ELSE XST_SUCCESS

CommitStatus ==
    IF (CommitPtr = NULL) \/ XDmaChannel_IsSgListEmpty
    THEN XST_DMA_SG_NOTHING_TO_COMMIT
    ELSE XST_SUCCESS

\* Commit that enables scatter gather in the last descriptor too
CommitClears_Always == TRUE

\* the descriptor to commit is not the last in the list
CommitClears == CommitPtr # LastPtr

\* Commit that leaves the flag as it finds it
CommitCommitted_Unchanged == Committed

\* the flag a successful Commit leaves
CommitCommitted == TRUE

CommitRing ==
    IF CommitClears THEN [ring EXCEPT ![CommitPtr].stop = FALSE] ELSE ring

XDmaChannel_CommitPuts ==
    /\ pc = "ready"
    /\ IF CommitStatus # XST_SUCCESS
       THEN /\ evt' = Event("Commit", CommitStatus, NULL)
            /\ UNCHANGED <<chan, ring, staged, round>>
       ELSE /\ ring' = CommitRing
            /\ Committed' = CommitCommitted
            /\ CommitPtr' = NULL
            /\ staged' = <<>>
            /\ round' = RoundCommit
            /\ evt' = Event("Commit", XST_SUCCESS, CommitPtr)
            /\ UNCHANGED <<VirtPtr, PhyPtr, TotalDescriptorCount,
                           ActiveDescriptorCount, ActivePacketCount,
                           PutPtr, GetPtr, LastPtr>>
    /\ UNCHANGED <<upc, regs, hw, pc, fifo, hwNewer, pinned, overtaken>>

\* ----------------------------------------------------------- GetDescriptor
\* Get that refuses a descriptor the hardware has not finished
GetStatus_ChecksBusy ==
    IF TotalDescriptorCount = 0 THEN XST_DMA_SG_NO_LIST
    ELSE IF XDmaChannel_IsSgListEmpty \/ ring[GetPtr].busy
         THEN XST_DMA_SG_LIST_EMPTY
    ELSE XST_SUCCESS

GetStatus ==
    IF TotalDescriptorCount = 0 THEN XST_DMA_SG_NO_LIST
    ELSE IF XDmaChannel_IsSgListEmpty THEN XST_DMA_SG_LIST_EMPTY
    ELSE XST_SUCCESS

\* Get that steps over a descriptor
GetNext_Skip == P_TO_V(ring[P_TO_V(ring[GetPtr].next)].next)

GetNext == P_TO_V(ring[GetPtr].next)

XDmaChannel_GetDescriptor ==
    /\ pc = "ready"
    /\ IF GetStatus # XST_SUCCESS
       THEN /\ evt' = Event("Get", GetStatus, NULL)
            /\ UNCHANGED <<chan, fifo, overtaken, round>>
       ELSE /\ evt' = Event("Get", XST_SUCCESS, GetPtr)
            /\ GetPtr' = GetNext
            /\ ActiveDescriptorCount' = ActiveDescriptorCount - 1
            /\ overtaken' = (overtaken \/ ring[GetPtr].busy)
            /\ fifo' = IF fifo = <<>> THEN fifo ELSE Tail(fifo)
            /\ round' = RoundGet
            /\ UNCHANGED <<VirtPtr, PhyPtr, TotalDescriptorCount,
                           ActivePacketCount, PutPtr, CommitPtr, LastPtr,
                           Committed>>
    /\ UNCHANGED <<upc, ring, regs, hw, pc, staged, hwNewer, pinned>>

\* ----------------------------------------------------------------- SgStart
\* the descriptor after the last one the hardware finished
StartNextDescriptorPtr == P_TO_V(ring[P_TO_V(BDA)].next)

\* Start that does not test for the empty list
StartStatus_NoEmptyCheck ==
    IF TotalDescriptorCount = 0 THEN XST_DMA_SG_NO_LIST
    ELSE IF DMASR_SG_BUSY THEN XST_DMA_SG_IS_STARTED
    ELSE IF P_TO_V(BDA) = NULL THEN XST_SUCCESS
    ELSE IF ~ring[StartNextDescriptorPtr].busy THEN XST_DMA_SG_NO_DATA
    ELSE IF StartNextDescriptorPtr = CommitPtr THEN XST_DMA_SG_BD_NOT_COMMITTED
    ELSE XST_SUCCESS

\* Start that does not read the status register
StartStatus_NoBusyCheck ==
    IF TotalDescriptorCount = 0 THEN XST_DMA_SG_NO_LIST
    ELSE IF XDmaChannel_IsSgListEmpty THEN XST_DMA_SG_LIST_EMPTY
    ELSE IF P_TO_V(BDA) = NULL THEN XST_SUCCESS
    ELSE IF ~ring[StartNextDescriptorPtr].busy THEN XST_DMA_SG_NO_DATA
    ELSE IF StartNextDescriptorPtr = CommitPtr THEN XST_DMA_SG_BD_NOT_COMMITTED
    ELSE XST_SUCCESS

\* Start that tests for the uncommitted descriptor before the used one
StartStatus_CommitFirst ==
    IF TotalDescriptorCount = 0 THEN XST_DMA_SG_NO_LIST
    ELSE IF XDmaChannel_IsSgListEmpty THEN XST_DMA_SG_LIST_EMPTY
    ELSE IF DMASR_SG_BUSY THEN XST_DMA_SG_IS_STARTED
    ELSE IF P_TO_V(BDA) = NULL THEN XST_SUCCESS
    ELSE IF StartNextDescriptorPtr = CommitPtr THEN XST_DMA_SG_BD_NOT_COMMITTED
    ELSE IF ~ring[StartNextDescriptorPtr].busy THEN XST_DMA_SG_NO_DATA
    ELSE XST_SUCCESS

\* the refusals of Start, in the order the code tests them
StartStatus ==
    IF TotalDescriptorCount = 0 THEN XST_DMA_SG_NO_LIST
    ELSE IF XDmaChannel_IsSgListEmpty THEN XST_DMA_SG_LIST_EMPTY
    ELSE IF DMASR_SG_BUSY THEN XST_DMA_SG_IS_STARTED
    ELSE IF P_TO_V(BDA) = NULL THEN XST_SUCCESS
    ELSE IF ~ring[StartNextDescriptorPtr].busy THEN XST_DMA_SG_NO_DATA
    ELSE IF StartNextDescriptorPtr = CommitPtr THEN XST_DMA_SG_BD_NOT_COMMITTED
    ELSE XST_SUCCESS

\* Start that points the hardware at the descriptor to get every time
StartSeedsBDA_Always == TRUE

\* the first start ever points the hardware at the descriptor to get
StartSeedsBDA == P_TO_V(BDA) = NULL

XDmaChannel_SgStart ==
    /\ pc = "ready"
    /\ evt' = [Event("Start", StartStatus, NULL) EXCEPT
                  !.sgWasEnabled = (StartStatus = XST_SUCCESS /\ SWCR.sg_enable)]
    /\ IF StartStatus # XST_SUCCESS
       THEN UNCHANGED <<regs, hw>>
       ELSE /\ BDA' = IF StartSeedsBDA THEN V_TO_P(GetPtr) ELSE BDA
            /\ hwSeeded' = IF StartSeedsBDA THEN TRUE ELSE hwSeeded
            /\ SWCR' = [SWCR EXCEPT !.sg_enable = TRUE]
            /\ DMACR' = [DMACR EXCEPT !.sg_disable = FALSE]
            /\ UNCHANGED hwBd
    /\ UNCHANGED <<upc, chan, ring, pc, ghost>>

\* Start called from an interrupt that has come between two statements of
\* a Put
XDmaChannel_SgStart_Interrupt ==
    /\ pc \in PutPositions
    /\ evt' = [Event("Start", StartStatus, NULL) EXCEPT
                  !.arg = evt.arg, !.src = evt.src]
    /\ IF StartStatus # XST_SUCCESS
       THEN UNCHANGED <<regs, hw>>
       ELSE /\ BDA' = IF StartSeedsBDA THEN V_TO_P(GetPtr) ELSE BDA
            /\ hwSeeded' = IF StartSeedsBDA THEN TRUE ELSE hwSeeded
            /\ SWCR' = [SWCR EXCEPT !.sg_enable = TRUE]
            /\ DMACR' = [DMACR EXCEPT !.sg_disable = FALSE]
            /\ UNCHANGED hwBd
    /\ UNCHANGED <<upc, chan, ring, pc, ghost>>

\* Start with its two register writes taken as separate steps.
\* Start that clears the stop bit of the control register first
StartWriteOrder_DmacrFirst == <<"DMACR", "SWCR">>

\* the registers Start writes, in the order it writes them
StartWriteOrder == <<"SWCR", "DMACR">>

\* one read-modify-write of Start: the register is read and written back
\* with one bit changed
StartWrite(reg) ==
    IF reg = "SWCR"
    THEN /\ SWCR' = [SWCR EXCEPT !.sg_enable = TRUE]
         /\ DMACR' = DMACR
    ELSE /\ DMACR' = [DMACR EXCEPT !.sg_disable = FALSE]
         /\ SWCR' = SWCR

\* the tests of Start, the BDA register and the first register write
XDmaChannel_SgStart_First ==
    /\ pc = "ready"
    /\ IF StartStatus # XST_SUCCESS
       THEN /\ evt' = Event("Start", StartStatus, NULL)
            /\ UNCHANGED <<regs, hw, pc>>
       ELSE /\ BDA' = IF StartSeedsBDA THEN V_TO_P(GetPtr) ELSE BDA
            /\ hwSeeded' = IF StartSeedsBDA THEN TRUE ELSE hwSeeded
            /\ StartWrite(StartWriteOrder[1])
            /\ pc' = "SgStart_second"
            /\ evt' = Event("SgStart_first", XST_SUCCESS, NULL)
            /\ UNCHANGED hwBd
    /\ UNCHANGED <<upc, chan, ring, ghost>>

\* the second register write of Start, and its return
XDmaChannel_SgStart_Second ==
    /\ pc = "SgStart_second"
    /\ StartWrite(StartWriteOrder[2])
    /\ pc' = "ready"
    /\ evt' = Event("Start", XST_SUCCESS, NULL)
    /\ UNCHANGED <<upc, chan, ring, BDA, hw, ghost>>

\* ------------------------------------------------------------------ SgStop
XDmaChannel_SgStop_Disable ==
    /\ pc = "ready"
    /\ IF ~SWCR.sg_enable
       THEN /\ evt' = Event("Stop", XST_DMA_SG_IS_STOPPED, NULL)
            /\ UNCHANGED <<SWCR, pc>>
       ELSE /\ SWCR' = [SWCR EXCEPT !.sg_enable = FALSE]
            /\ pc' = "SgStop_poll"
            /\ evt' = Event("StopDisable", XST_SUCCESS, NULL)
    /\ UNCHANGED <<upc, chan, ring, DMACR, BDA, hw, ghost>>

\* a wait that is over at the first read of the status register
StopPollDone_NoWait == TRUE

\* a wait with the loop condition inverted
StopPollDone_Inverted == DMASR_SG_BUSY

\* the do-while leaves only once the SG-busy bit reads clear
StopPollDone == ~DMASR_SG_BUSY

XDmaChannel_SgStop_Poll ==
    /\ pc = "SgStop_poll"
    /\ StopPollDone
    /\ pc' = "ready"
    /\ evt' = Event("Stop", XST_SUCCESS, P_TO_V(BDA))
    /\ UNCHANGED <<upc, chan, ring, regs, hw, ghost>>

\* ------------------------------------------------------------ the caller
\* the driver above pins a descriptor it got, and releases it later
XBufDescriptor_Lock ==
    /\ pc = "ready"
    /\ evt.op = "Get" /\ evt.rc = XST_SUCCESS
    /\ ~ring[evt.bd].locked
    /\ Cardinality({bd \in DOMAIN ring : ring[bd].locked}) < MaxLocked
    /\ ring' = [ring EXCEPT ![evt.bd].locked = TRUE]
    /\ evt' = Event("Lock", XST_SUCCESS, evt.bd)
    /\ pinned' = pinned \cup {evt.bd}
    /\ UNCHANGED <<upc, chan, regs, hw, pc, staged, fifo, hwNewer, overtaken, round>>

XBufDescriptor_Unlock(bd) ==
    /\ pc = "ready"
    /\ ring[bd].locked
    /\ ring' = [ring EXCEPT ![bd].locked = FALSE]
    /\ evt' = Event("Unlock", XST_SUCCESS, bd)
    /\ pinned' = pinned \ {bd}
    /\ UNCHANGED <<upc, chan, regs, hw, pc, staged, fifo, hwNewer, overtaken, round>>

\* ------------------------------------------------------ interrupt coalescing
\* What a write to the unserviced packet count register does to the count: a
\* 1 acknowledges one packet and takes the count down by one, rolling over
\* from 0; the counter is taken 10 bits wide.
UPCWrite(count, value) ==
    IF value = 1 THEN (count + 1023) % 1024 ELSE count

\* DecrementPktCount reads the register into its local
XDmaChannel_DecrementPktCount_Read ==
    /\ pc = "ready"
    /\ Register' = UPC
    /\ pc' = "DecrementPktCount_test"
    /\ evt' = Event("DecrementPktCount_read", XST_SUCCESS, NULL)
    /\ UNCHANGED <<chan, ring, regs, hw, UPC, ghost>>

\* DecrementPktCount that writes whatever it read
DecrementWrites_Always == TRUE

\* the test DecrementPktCount makes on the value it read
DecrementWrites == Register > 0

\* DecrementPktCount tests its local and acknowledges one packet
XDmaChannel_DecrementPktCount_Test ==
    /\ pc = "DecrementPktCount_test"
    /\ IF DecrementWrites
       THEN /\ UPC' = UPCWrite(UPC, 1)
            /\ evt' = [Event("DecrementPktCount", XST_SUCCESS, NULL)
                          EXCEPT !.wrote = 1, !.count = UPC]
       ELSE /\ UPC' = UPC
            /\ evt' = Event("DecrementPktCount", XST_SUCCESS, NULL)
    /\ pc' = "ready"
    /\ UNCHANGED <<chan, ring, regs, hw, Register, ghost>>

\* the hardware has sent or received one more packet
EngineCountsPacket ==
    /\ UPC < MaxUPC
    /\ UPC' = UPC + 1
    /\ UNCHANGED <<chan, ring, regs, hw, Register, pc, evt, ghost>>

\* -------------------------------------------------------------- the engine
\* The hardware runs while scatter gather is enabled in the software control
\* register and not disabled in the DMA control register.
EngineEnabled == SWCR.sg_enable /\ ~DMACR.sg_disable

\* the slots that hold a descriptor Put and not committed
Staged == {staged[i] : i \in DOMAIN staged}

\* slots from a through b along the next pointers
RECURSIVE Path(_, _)
Path(a, b) == IF a = b THEN {a} ELSE {a} \cup Path(P_TO_V(ring[a].next), b)

\* the slots whose descriptor is younger than the one at v: Put goes round the
\* ring, so they are the slots after v up to the tail
NewerThan(v) ==
    IF v = LastPtr THEN {} ELSE Path(P_TO_V(ring[v].next), LastPtr)

\* what the engine meets in the descriptor at p, read in memory mem
EngineEvent(p, mem) ==
    [Event("EngineFetch", XST_SUCCESS, P_TO_V(p)) EXCEPT
        !.uncommitted = P_TO_V(p) \in Staged,
        !.stale = ~mem[P_TO_V(p)].busy,
        !.outOfOrder = P_TO_V(p) \notin hwNewer]

\* the BD to run: the one BDA was seeded with, else the successor of the last
EngineTarget == IF hwSeeded THEN BDA ELSE Mem(BDA).next

\* takes up a descriptor: its control word becomes the DMA control register
EngineFetch ==
    /\ EngineEnabled
    /\ hwBd = NULL
    /\ hwBd' = EngineTarget
    /\ hwSeeded' = FALSE
    /\ DMACR' = [DMACR EXCEPT !.sg_disable = Mem(EngineTarget).stop]
    /\ evt' = EngineEvent(EngineTarget, ring)
    /\ hwNewer' = NewerThan(P_TO_V(EngineTarget))
    /\ UNCHANGED <<upc, chan, ring, SWCR, BDA, pc, staged, fifo, pinned, overtaken,
                   round>>

\* the hardware clears busy and leaves its status in the finished descriptor
EngineDone == [ring EXCEPT ![P_TO_V(hwBd)].busy = FALSE,
                           ![P_TO_V(hwBd)].devStatus = 1]

\* finishes the descriptor in flight and goes on to its successor
EngineCompleteContinue ==
    /\ hwBd # NULL
    /\ EngineEnabled
    /\ ring' = EngineDone
    /\ BDA' = hwBd
    /\ hwBd' = Mem(hwBd).next
    /\ DMACR' = [DMACR EXCEPT !.sg_disable = EngineDone[P_TO_V(Mem(hwBd).next)].stop]
    /\ evt' = EngineEvent(Mem(hwBd).next, EngineDone)
    /\ hwNewer' = NewerThan(P_TO_V(Mem(hwBd).next))
    /\ UNCHANGED <<upc, chan, SWCR, hwSeeded, pc, staged, fifo, pinned, overtaken,
                   round>>

\* finishes the descriptor in flight and halts: it carried the stop bit, or
\* scatter gather was disabled in the software control register meanwhile
EngineCompleteHalt ==
    /\ hwBd # NULL
    /\ ~EngineEnabled
    /\ ring' = EngineDone
    /\ BDA' = hwBd
    /\ hwBd' = NULL
    /\ evt' = Event("EngineHalt", XST_SUCCESS, P_TO_V(hwBd))
    /\ UNCHANGED <<upc, chan, SWCR, DMACR, hwSeeded, pc, ghost>>

\* -------------------------------------------------------------------- Next
\* The driver's entry points interleaved with the steps of the engine. The
\* descriptors put here end no packet and none is pinned, so that the ring
\* and the engine can be followed through several laps.
Next ==
    \/ \E m \in MemoryPtrs, b \in ByteCounts, p \in PhyPtrs :
          XDmaChannel_CreateSgList(m, b, p)
    \/ \E src \in {b \in SrcBDs : ~b.last /\ ~b.locked} :
          XDmaChannel_PutDescriptor(src)
    \/ XDmaChannel_CommitPuts
    \/ XDmaChannel_GetDescriptor
    \/ XDmaChannel_SgStart
    \/ XDmaChannel_SgStop_Disable
    \/ XDmaChannel_SgStop_Poll
    \/ EngineFetch
    \/ EngineCompleteContinue
    \/ EngineCompleteHalt

Spec == Init /\ [][Next]_vars

\* The same behaviours with an engine that finishes the descriptor it has in
\* flight and a Stop whose loop keeps reading the status register.
SpecFair ==
    /\ Spec
    /\ WF_vars(EngineCompleteHalt)
    /\ WF_vars(XDmaChannel_SgStop_Poll)

\* The list operations alone, the engine never started: every kind of
\* descriptor is put, and the caller pins and releases descriptors it got.
NextList ==
    \/ \E m \in MemoryPtrs, b \in ByteCounts, p \in PhyPtrs :
          XDmaChannel_CreateSgList(m, b, p)
    \/ \E src \in SrcBDs : XDmaChannel_PutDescriptor(src)
    \/ XDmaChannel_CommitPuts
    \/ XDmaChannel_GetDescriptor
    \/ XBufDescriptor_Lock
    \/ \E bd \in DOMAIN ring : XBufDescriptor_Unlock(bd)

SpecList == Init /\ [][NextList]_vars

\* The driver and the engine again, with the two register writes of Start
\* as separate steps.
NextStart ==
    \/ \E m \in MemoryPtrs, b \in ByteCounts, p \in PhyPtrs :
          XDmaChannel_CreateSgList(m, b, p)
    \/ \E src \in {b \in SrcBDs : ~b.last /\ ~b.locked} :
          XDmaChannel_PutDescriptor(src)
    \/ XDmaChannel_CommitPuts
    \/ XDmaChannel_GetDescriptor
    \/ XDmaChannel_SgStart_First
    \/ XDmaChannel_SgStart_Second
    \/ XDmaChannel_SgStop_Disable
    \/ XDmaChannel_SgStop_Poll
    \/ EngineFetch
    \/ EngineCompleteContinue
    \/ EngineCompleteHalt

SpecStart == Init /\ [][NextStart]_vars

\* The driver with a Put that an interrupt calling Start can cut in two, and
\* the engine.
NextIntr ==
    \/ \E m \in MemoryPtrs, b \in ByteCounts, p \in PhyPtrs :
          XDmaChannel_CreateSgList(m, b, p)
    \/ \E src \in {b \in SrcBDs : ~b.last /\ ~b.locked} :
          XDmaChannel_PutDescriptor_Copy(src)
    \/ XDmaChannel_PutDescriptor_Clear
    \/ XDmaChannel_PutDescriptor_Count
    \/ XDmaChannel_PutDescriptor_CommitPtr
    \/ XDmaChannel_PutDescriptor_LastPtr
    \/ XDmaChannel_PutDescriptor_PutPtr
    \/ XDmaChannel_CommitPuts
    \/ XDmaChannel_GetDescriptor
    \/ XDmaChannel_SgStart
    \/ XDmaChannel_SgStart_Interrupt
    \/ EngineFetch
    \/ EngineCompleteContinue
    \/ EngineCompleteHalt

SpecIntr == Init /\ [][NextIntr]_vars

\* The address map alone, on lists created anywhere in the u32 address space.
NextMap ==
    \/ \E m \in MemoryPtrs32, b \in ByteCounts, p \in PhyPtrs32 :
          XDmaChannel_CreateSgList32(m, b, p)
    \/ Translate_V_TO_P
    \/ Translate_P_TO_V

SpecMap == Init /\ [][NextMap]_vars

\* The list alone, with rounds of Puts, one Commit and Gets watched.
NextRound ==
    \/ \E m \in MemoryPtrs, b \in ByteCounts, p \in PhyPtrs :
          XDmaChannel_CreateSgList(m, b, p)
    \/ \E src \in {b \in SrcBDs : ~b.locked} : XDmaChannel_PutDescriptor(src)
    \/ XDmaChannel_CommitPuts
    \/ XDmaChannel_GetDescriptor
    \/ RoundBegin

SpecRound == Init /\ [][NextRound]_vars

\* The packet counter alone: the interrupt service routine acknowledges
\* packets while the hardware goes on counting them.
NextPkt ==
    \/ XDmaChannel_DecrementPktCount_Read
    \/ XDmaChannel_DecrementPktCount_Test
    \/ EngineCountsPacket

SpecPkt == Init /\ [][NextPkt]_vars

\* ================================================================= claims

\* the slot the cursors stand on after creation, where the first Put goes
FirstPutSlot == CreateLast(VirtPtr, TotalDescriptorCount)

\* the slot the second Put goes to
SecondPutSlot == P_TO_V(ring[FirstPutSlot].next)

\* the descriptor the engine takes up first once Start has enabled it
StartWouldRun == IF P_TO_V(BDA) = NULL THEN GetPtr ELSE StartNextDescriptorPtr

\* C1: the engine never takes up a descriptor that was Put after the most
\* recent successful Commit; a staged descriptor is out of its reach until
\* Commit has succeeded.
C1_EngineNeverRunsStaged ==
    evt.op = "EngineFetch" => ~evt.uncommitted

\* C2, as claimed: under every interleaving the engine never takes up a slot
\* that does not hold a descriptor Put and not yet processed.
C2_EngineNeverRunsOffRing ==
    evt.op = "EngineFetch" => ~evt.stale

\* C2, amended: as long as every Get has returned a descriptor the engine had
\* finished, the engine takes up only slots of the active part of the ring,
\* GetPtr through LastPtr, that hold a descriptor Put and not yet processed.
C2_EngineStaysOnPutDescriptors ==
    (evt.op = "EngineFetch" /\ ~overtaken) =>
        /\ ~evt.stale
        /\ ActiveDescriptorCount > 0
        /\ evt.bd \in Path(GetPtr, LastPtr)

\* C2 witness: the engine went round a full ring of several slots and halted
\* on the tail, which carries the stop bit.
C2_Witness ==
    /\ evt.op = "EngineHalt" /\ evt.bd = LastPtr /\ ~overtaken
    /\ Committed /\ staged = <<>>
    /\ TotalDescriptorCount >= 2
    /\ ActiveDescriptorCount = TotalDescriptorCount
    /\ PutPtr # FirstPutSlot
    /\ ring[LastPtr].stop /\ DMACR.sg_disable

\* S5: a fresh ring, engine idle, two descriptors Put and none committed
S5_PutPutNoCommit ==
    /\ TotalDescriptorCount >= 2
    /\ ActiveDescriptorCount = 2
    /\ GetPtr = FirstPutSlot
    /\ LastPtr = SecondPutSlot
    /\ staged = <<FirstPutSlot, SecondPutSlot>>
    /\ ~Committed /\ ~overtaken
    /\ BDA = NULL /\ hwBd = NULL /\ ~SWCR.sg_enable

\* C3: scenario S5. After Put, Put with no Commit on a fresh ring, Start
\* returns BdNotCommitted and does not enable scatter gather.
C3_S5_StartRace ==
    [][(S5_PutPutNoCommit /\ evt'.op = "Start") =>
          (evt'.rc = XST_DMA_SG_BD_NOT_COMMITTED /\ ~SWCR'.sg_enable)]_vars

\* C4: whenever the descriptor the engine would run next is the first of the
\* descriptors Put and not yet committed, Start does not return Success.
C4_StartRefusesUncommittedHead ==
    [][(evt'.op = "Start" /\ TotalDescriptorCount # 0 /\ staged # <<>>
          /\ StartWouldRun = Head(staged)) =>
          evt'.rc # XST_SUCCESS]_vars

\* S6: the engine has run and consumed every descriptor, and all were Got
S6_Drained ==
    /\ TotalDescriptorCount # 0
    /\ ActiveDescriptorCount = 0
    /\ Committed /\ CommitPtr = NULL
    /\ BDA # NULL /\ P_TO_V(BDA) = LastPtr /\ hwBd = NULL
    /\ \A v \in DOMAIN ring : ~ring[v].busy

\* C5, as claimed: scenario S6. A Start on the drained ring returns NoData.
C5_S6_StartNoData ==
    (evt.op = "Start" /\ S6_Drained) => evt.rc = XST_DMA_SG_NO_DATA

\* C5, amended: a Start on the drained ring returns ListEmpty, the test for
\* the empty list coming before the read of BDA; the descriptor after the
\* last processed one does have its busy bit clear.
C5_S6_StartListEmpty ==
    (evt.op = "Start" /\ S6_Drained) =>
        /\ evt.rc = XST_DMA_SG_LIST_EMPTY
        /\ ~ring[StartNextDescriptorPtr].busy

\* C5 witness: Start was called on the drained ring.
C5_Witness == evt.op = "Start" /\ S6_Drained /\ ~overtaken

\* C6: Put returns NoList iff there is no ring, else ListFull iff the ring is
\* full, else BdLocked iff the slot at PutPtr is locked, else Success, tested
\* in that order; a refusal leaves the cursors, the counters, every slot and
\* the caller's descriptor as they were; the active count never exceeds the
\* total.
C6_PutRefusals ==
    [][evt'.op = "Put" =>
          /\ (TotalDescriptorCount = 0) => (evt'.rc = XST_DMA_SG_NO_LIST)
          /\ (TotalDescriptorCount # 0
                /\ ActiveDescriptorCount = TotalDescriptorCount)
               => (evt'.rc = XST_DMA_SG_LIST_FULL)
          /\ (TotalDescriptorCount # 0
                /\ ActiveDescriptorCount # TotalDescriptorCount
                /\ ring[PutPtr].locked)
               => (evt'.rc = XST_DMA_SG_BD_LOCKED)
          /\ (TotalDescriptorCount # 0
                /\ ActiveDescriptorCount # TotalDescriptorCount
                /\ ~ring[PutPtr].locked)
               => (evt'.rc = XST_SUCCESS)
          /\ (evt'.rc # XST_SUCCESS)
               => (UNCHANGED <<chan, ring>> /\ evt'.src = evt'.arg)
          /\ ActiveDescriptorCount' <= TotalDescriptorCount']_vars

\* C6 witness: a third Put on a full, committed ring of two whose slot at
\* PutPtr is locked was refused with ListFull.
C6_Witness ==
    /\ evt.op = "Put" /\ evt.rc = XST_DMA_SG_LIST_FULL
    /\ TotalDescriptorCount = 2 /\ ActiveDescriptorCount = 2
    /\ Committed /\ CommitPtr = NULL
    /\ ring[PutPtr].locked

\* C7: a successful Commit clears the stop bit of the slot at CommitPtr and
\* of no other slot when CommitPtr differs from LastPtr, and writes no
\* descriptor when they are equal, the stop bit of that slot staying set;
\* afterwards Committed holds and CommitPtr is none, the other cursors and
\* the counters unchanged. S1: one last-in-packet Put and a Commit on a fresh
\* ring leave CommitPtr none, Committed, the tail's stop bit set, one active
\* packet and one active descriptor.
C7_CommitHandsOver ==
    [][(evt'.op = "Commit" /\ evt'.rc = XST_SUCCESS) =>
          /\ (CommitPtr # LastPtr)
               => (ring' = [ring EXCEPT ![CommitPtr].stop = FALSE])
          /\ (CommitPtr = LastPtr)
               => (ring' = ring /\ ring'[LastPtr].stop)
          /\ Committed' /\ CommitPtr' = NULL
          /\ UNCHANGED <<PutPtr, GetPtr, LastPtr, ActiveDescriptorCount,
                         ActivePacketCount>>
          /\ (staged = <<FirstPutSlot>> /\ fifo = <<FirstPutSlot>> /\ ~Committed
                /\ ring[FirstPutSlot].last /\ ActivePacketCount = 1)
               => /\ ring'[LastPtr'].stop
                  /\ ActivePacketCount' = 1
                  /\ ActiveDescriptorCount' = 1]_vars

\* C7 witness: S1 on the largest ring, right after the Commit.
C7_Witness ==
    /\ evt.op = "Commit" /\ evt.rc = XST_SUCCESS /\ evt.bd = LastPtr
    /\ TotalDescriptorCount = MaxSlots
    /\ fifo = <<FirstPutSlot>> /\ ring[FirstPutSlot].last
    /\ ActivePacketCount = 1 /\ ActiveDescriptorCount = 1
    /\ Committed /\ CommitPtr = NULL /\ ring[LastPtr].stop

\* C8: Commit returns NothingToCommit exactly when CommitPtr is none or the
\* ring is empty, and then writes no descriptor and keeps CommitPtr and
\* Committed.
C8_NothingToCommit ==
    [][evt'.op = "Commit" =>
          /\ (evt'.rc = XST_DMA_SG_NOTHING_TO_COMMIT)
               <=> (CommitPtr = NULL \/ ActiveDescriptorCount = 0)
          /\ (evt'.rc = XST_DMA_SG_NOTHING_TO_COMMIT)
               => UNCHANGED <<chan, ring>>]_vars

\* C8 witness: descriptors were Put and all Got with no Commit; CommitPtr is
\* still set and Commit was refused.
C8_Witness ==
    /\ evt.op = "Commit" /\ evt.rc = XST_DMA_SG_NOTHING_TO_COMMIT
    /\ CommitPtr # NULL /\ ActiveDescriptorCount = 0 /\ ~Committed

\* C9: Get returns NoList without a ring and ListEmpty on an empty ring,
\* changing nothing; otherwise it returns the slot at GetPtr, moves GetPtr to
\* its successor and takes one off the active count, the other cursors,
\* Committed and the descriptors unchanged, whatever the hardware has done
\* to the descriptor.
C9_Get ==
    [][evt'.op = "Get" =>
          /\ (TotalDescriptorCount = 0)
               => (evt'.rc = XST_DMA_SG_NO_LIST /\ UNCHANGED <<chan, ring>>)
          /\ (TotalDescriptorCount # 0 /\ ActiveDescriptorCount = 0)
               => (evt'.rc = XST_DMA_SG_LIST_EMPTY /\ UNCHANGED <<chan, ring>>)
          /\ (TotalDescriptorCount # 0 /\ ActiveDescriptorCount > 0)
               => /\ evt'.rc = XST_SUCCESS
                  /\ evt'.bd = GetPtr
                  /\ GetPtr' = VirtPtr + (ring[GetPtr].next - PhyPtr)
                  /\ ActiveDescriptorCount' = ActiveDescriptorCount - 1
                  /\ UNCHANGED <<PutPtr, LastPtr, CommitPtr, Committed, ring>>]_vars

\* C9 witness: Get returned a descriptor whose busy bit is still set and that
\* has not been committed.
C9_Witness ==
    /\ evt.op = "Get" /\ evt.rc = XST_SUCCESS
    /\ ring[evt.bd].busy
    /\ evt.bd \in Staged

\* each successful Get returns the slot of the oldest Put not yet Got
GetIsFifo ==
    (evt'.op = "Get" /\ evt'.rc = XST_SUCCESS) =>
        (fifo # <<>> /\ evt'.bd = Head(fifo))

\* C10, as claimed: over any sequence of operations the k-th successful Get
\* returns the slot written by the k-th successful Put, and the engine
\* takes the descriptors up in that same order.
C10_FifoAndEngineOrder ==
    [][/\ GetIsFifo
       /\ (evt'.op = "EngineFetch") => ~evt'.outOfOrder]_vars

\* C10, amended: the k-th successful Get returns the slot written by the
\* k-th successful Put, over any sequence of operations; the engine takes the
\* descriptors up in that order as long as every Get has returned a
\* descriptor the engine had finished.
C10_FifoAndEngineOrderUnlessOvertaken ==
    [][/\ GetIsFifo
       /\ (evt'.op = "EngineFetch" /\ ~overtaken') => ~evt'.outOfOrder]_vars

\* C10 witness: the ring has wrapped; Get returned the slot before the one
\* the first Put went to, finished by the engine, and that first slot holds
\* the only active descriptor.
C10_Witness ==
    /\ evt.op = "Get" /\ evt.rc = XST_SUCCESS
    /\ TotalDescriptorCount >= 2
    /\ FirstPutSlot = P_TO_V(ring[evt.bd].next)
    /\ ~ring[evt.bd].busy /\ ~overtaken
    /\ fifo = <<FirstPutSlot>> /\ GetPtr = FirstPutSlot

\* the slots of a region of n descriptors are linked each to the one after
\* it in memory and the last to the first
RingLinked(n) ==
    /\ DOMAIN ring = {VirtPtr + i * SizeofBD : i \in 0..(n - 1)}
    /\ \A i \in 0..(n - 1) :
          ring[VirtPtr + i * SizeofBD].next = PhyPtr + ((i + 1) % n) * SizeofBD

\* what creation leaves besides the cursors
CreatedEmpty ==
    /\ TotalDescriptorCount = evt.ByteCount \div SizeofBD
    /\ RingLinked(evt.ByteCount \div SizeofBD)
    /\ CommitPtr = NULL
    /\ ActiveDescriptorCount = 0 /\ ActivePacketCount = 0
    /\ ~Committed

\* C11, as claimed: a successful CreateSgList over ByteCount bytes makes
\* floor(ByteCount / sizeof BD) slots linked into a ring, and leaves PutPtr,
\* GetPtr and LastPtr on the first slot of the region, CommitPtr none, both
\* counts zero and Committed false.
C11_CreateCursorsOnFirst ==
    (evt.op = "CreateSgList" /\ evt.rc = XST_SUCCESS) =>
        /\ CreatedEmpty
        /\ PutPtr = VirtPtr /\ GetPtr = VirtPtr /\ LastPtr = VirtPtr

\* C11, amended: as above, but PutPtr, GetPtr and LastPtr are left on the
\* last slot of the region, the last descriptor the loop created.
C11_CreateCursorsOnLast ==
    (evt.op = "CreateSgList" /\ evt.rc = XST_SUCCESS) =>
        /\ CreatedEmpty
        /\ PutPtr = VirtPtr + (TotalDescriptorCount - 1) * SizeofBD
        /\ GetPtr = PutPtr /\ LastPtr = PutPtr

\* C11 witness: the largest ring was created from a region with a rest that
\* holds no whole descriptor.
C11_Witness ==
    /\ evt.op = "CreateSgList" /\ evt.rc = XST_SUCCESS
    /\ TotalDescriptorCount = MaxSlots
    /\ evt.ByteCount > MaxSlots * SizeofBD
    /\ PutPtr # VirtPtr

\* C12: CreateSgList on a channel that has a ring returns ListExists and
\* leaves the bases, the total, the cursors, the counters and every
\* descriptor as they were.
C12_CreateListExists ==
    [][(evt'.op = "CreateSgList" /\ TotalDescriptorCount # 0) =>
          /\ evt'.rc = XST_DMA_SG_LIST_EXISTS
          /\ UNCHANGED <<chan, ring>>]_vars

\* C12 witness: creation was refused on a ring with committed descriptors,
\* some of them got, and a staged run.
C12_Witness ==
    /\ evt.op = "CreateSgList" /\ evt.rc = XST_DMA_SG_LIST_EXISTS
    /\ ActiveDescriptorCount > 0 /\ Committed /\ CommitPtr # NULL
    /\ GetPtr # FirstPutSlot

\* C13: Stop returns IsStopped and writes no register when SG enable is
\* clear in the software control register; otherwise it writes that register
\* with only the SG enable bit cleared, returns only once SG busy reads
\* clear, and then returns the virtual address of the descriptor BDA names.
\* No step of Stop changes a cursor, a counter or a descriptor.
C13_StopProtocol ==
    [][/\ (evt'.op \in {"Stop", "StopDisable"}) => UNCHANGED <<chan, ring>>
       /\ (pc = "ready" /\ evt'.op \in {"Stop", "StopDisable"}
             /\ ~SWCR.sg_enable)
            => (evt'.op = "Stop" /\ evt'.rc = XST_DMA_SG_IS_STOPPED
                  /\ pc' = "ready" /\ UNCHANGED regs)
       /\ (pc = "ready" /\ evt'.op \in {"Stop", "StopDisable"}
             /\ SWCR.sg_enable)
            => (evt'.op = "StopDisable" /\ pc' = "SgStop_poll"
                  /\ ~SWCR'.sg_enable /\ SWCR'.rest = SWCR.rest
                  /\ UNCHANGED <<DMACR, BDA>>)
       /\ (evt'.op = "Stop" /\ evt'.rc = XST_SUCCESS)
            => (pc = "SgStop_poll" /\ hwBd = NULL /\ ~SWCR.sg_enable
                  /\ evt'.bd = (IF BDA = 0 THEN 0
                                ELSE VirtPtr + (BDA - PhyPtr))
                  /\ UNCHANGED regs)]_vars

\* C13 witness: Stop returned in the middle of a committed run: the
\* descriptor it names is finished and the one after it is still to be run.
C13_Witness ==
    /\ evt.op = "Stop" /\ evt.rc = XST_SUCCESS
    /\ evt.bd # NULL /\ evt.bd # LastPtr
    /\ ~ring[evt.bd].busy
    /\ ring[P_TO_V(ring[evt.bd].next)].busy
    /\ Committed /\ staged = <<>> /\ ~overtaken
    /\ ~SWCR.sg_enable /\ ~DMACR.sg_disable

\* C14: with an engine that finishes its descriptor, a Stop that has passed
\* the IsStopped test returns Success in the end; while SG busy stays set it
\* does not return; Put, Commit, Get and Start can always be taken by the
\* idle caller and return in one step, whatever the hardware is doing.
C14_OnlyStopWaits ==
    /\ (pc = "SgStop_poll")
          ~> (pc = "ready" /\ evt.op = "Stop" /\ evt.rc = XST_SUCCESS)
    /\ [][(pc = "SgStop_poll" /\ hwBd # NULL) => pc' = "SgStop_poll"]_vars
    /\ [][(evt'.op \in {"Put", "Commit", "Get", "Start"})
             => (pc = "ready" /\ pc' = "ready")]_vars
    /\ [](pc = "ready" =>
            /\ ENABLED (\E src \in SrcBDs : ~src.last /\ XDmaChannel_PutDescriptor(src))
            /\ ENABLED XDmaChannel_CommitPuts
            /\ ENABLED XDmaChannel_GetDescriptor
            /\ ENABLED XDmaChannel_SgStart)

\* C14 witness: Stop is in its loop and the engine still has a descriptor in
\* flight.
C14_Witness ==
    /\ pc = "SgStop_poll" /\ hwBd # NULL /\ ~SWCR.sg_enable
    /\ evt.op = "StopDisable"

\* C15: Put never overwrites a locked slot. When PutPtr has come round to a
\* slot the caller locked after getting it, Put returns BdLocked and the
\* slot, the cursors and the counters stay as they were; once the caller has
\* cleared the flag the Put into that slot succeeds.
C15_PutSparesLocked ==
    [][/\ (evt'.op = "Put" /\ evt'.rc = XST_SUCCESS) => ~ring[PutPtr].locked
       /\ (evt'.op = "Put" /\ TotalDescriptorCount # 0 /\ PutPtr \in pinned
             /\ ActiveDescriptorCount # TotalDescriptorCount)
            => (evt'.rc = XST_DMA_SG_BD_LOCKED /\ UNCHANGED <<chan, ring>>)
       /\ (evt'.op = "Put" /\ evt.op = "Unlock" /\ evt.bd = PutPtr
             /\ ActiveDescriptorCount # TotalDescriptorCount)
            => (evt'.rc = XST_SUCCESS /\ evt'.bd = evt.bd
                  /\ ring'[evt.bd].id = evt'.arg.id
                  /\ ring'[evt.bd].last = evt'.arg.last)]_vars

\* C15 witness: S4 on a ring of two. The descriptor first put was got and
\* locked, the ring wrapped, and the Put that reached its slot was refused.
C15_Witness ==
    /\ evt.op = "Put" /\ evt.rc = XST_DMA_SG_BD_LOCKED
    /\ TotalDescriptorCount = 2
    /\ PutPtr = FirstPutSlot /\ PutPtr \in pinned /\ ring[PutPtr].locked
    /\ ~evt.arg.locked
    /\ ActiveDescriptorCount = 1 /\ fifo = <<SecondPutSlot>>

\* the slot the third Put goes to
ThirdPutSlot == P_TO_V(ring[SecondPutSlot].next)

\* S7 up to the second Start: three descriptors put on a fresh ring of three
\* and committed together, the first one run by the engine, the engine
\* halted by Stop with BDA on that first descriptor
S7_StoppedAfterFirst ==
    /\ TotalDescriptorCount = 3
    /\ fifo = <<FirstPutSlot, SecondPutSlot, ThirdPutSlot>>
    /\ Committed /\ staged = <<>> /\ ~overtaken
    /\ BDA = V_TO_P(FirstPutSlot) /\ hwBd = NULL /\ ~hwSeeded
    /\ ~ring[FirstPutSlot].busy
    /\ ring[SecondPutSlot].busy /\ ring[ThirdPutSlot].busy

\* C16: a Start that finds BDA null and succeeds leaves the physical address
\* of GetPtr in BDA and the engine enabled; a Start that finds BDA set leaves
\* BDA alone; the engine enabled by Start takes up the descriptor BDA was
\* seeded with, or else the successor of the last one processed; in S7 the
\* second Start returns Success.
C16_StartSeedsOnce ==
    [][/\ (evt'.op = "Start" /\ evt'.rc = XST_SUCCESS /\ BDA = 0)
            => (BDA' = PhyPtr + (GetPtr - VirtPtr)
                  /\ SWCR'.sg_enable /\ ~DMACR'.sg_disable)
       /\ (evt'.op = "Start" /\ evt'.rc # XST_SUCCESS) => UNCHANGED regs
       /\ (evt'.op = "Start" /\ BDA # 0) => BDA' = BDA
       /\ (evt.op = "Start" /\ evt.rc = XST_SUCCESS /\ evt'.op = "EngineFetch")
            => evt'.bd = (IF hwSeeded THEN VirtPtr + (BDA - PhyPtr)
                          ELSE VirtPtr + (ring[VirtPtr + (BDA - PhyPtr)].next - PhyPtr))
       /\ (S7_StoppedAfterFirst /\ ~SWCR.sg_enable /\ evt'.op = "Start")
            => (evt'.rc = XST_SUCCESS /\ BDA' = BDA
                  /\ SWCR'.sg_enable /\ ~DMACR'.sg_disable)]_vars

\* C16 witness: S7 right after the second Start, which found scatter gather
\* disabled by Stop and succeeded; the engine is enabled again and the second
\* descriptor is the next it takes up.
C16_Witness ==
    /\ evt.op = "Start" /\ evt.rc = XST_SUCCESS /\ ~evt.sgWasEnabled
    /\ S7_StoppedAfterFirst
    /\ EngineEnabled /\ P_TO_V(EngineTarget) = SecondPutSlot

\* the active descriptors that end a packet
ActiveLast == {i \in DOMAIN fifo : ring[fifo[i]].last}

\* C17: in every state of a ring 0 <= ActivePacketCount <=
\* ActiveDescriptorCount, and ActivePacketCount is the number of descriptors
\* Put and not yet Got whose last-in-packet bit is set.
C17_PacketCountTracksActive ==
    TotalDescriptorCount # 0 =>
        /\ 0 <= ActivePacketCount
        /\ ActivePacketCount <= ActiveDescriptorCount
        /\ ActivePacketCount = Cardinality(ActiveLast)

\* C18, as claimed: Committed is true from a successful Commit up to the
\* next successful Put, which opens a new staged run, and false in every
\* other state.
C18_CommittedUntilNextPut ==
    [][/\ (evt'.op = "CreateSgList" /\ evt'.rc = XST_SUCCESS) => ~Committed'
       /\ (evt'.op = "Commit" /\ evt'.rc = XST_SUCCESS) => Committed'
       /\ (evt'.op = "Put" /\ evt'.rc = XST_SUCCESS) => ~Committed'
       /\ ~(evt'.rc = XST_SUCCESS /\ evt'.op \in {"CreateSgList", "Commit", "Put"})
            => (Committed' = Committed)]_vars

\* C18, amended: Committed is false from creation until the first successful
\* Commit and true in every state after it; no Put changes it.
C18_CommittedSinceFirstCommit ==
    [][/\ (evt'.op = "CreateSgList" /\ evt'.rc = XST_SUCCESS) => ~Committed'
       /\ (evt'.op = "Commit" /\ evt'.rc = XST_SUCCESS) => Committed'
       /\ ~(evt'.rc = XST_SUCCESS /\ evt'.op \in {"CreateSgList", "Commit"})
            => (Committed' = Committed)]_vars

\* C18 witness: a Put has opened a new staged run after a Commit and
\* Committed is still true.
C18_Witness ==
    /\ evt.op = "Put" /\ evt.rc = XST_SUCCESS
    /\ staged = <<evt.bd>> /\ CommitPtr # NULL
    /\ Len(fifo) >= 2
    /\ Committed

\* C19: DecrementPktCount writes the unserviced packet count register only
\* when the value it has just read is greater than 0, and then writes exactly
\* 1; when it read 0 it writes nothing. The count therefore never rolls over
\* below zero, whatever the hardware adds between the read and the write.
C19_DecrementOnlyAboveZero ==
    /\ [][(pc = "DecrementPktCount_test" /\ pc' = "ready") =>
            /\ Register > 0 => (evt'.wrote = 1 /\ UPC > 0 /\ UPC' = UPC - 1)
            /\ Register = 0 => (evt'.wrote = 0 /\ UPC' = UPC)]_vars
    /\ [][(pc = "ready" /\ pc' = "DecrementPktCount_test") =>
            (Register' = UPC /\ UPC' = UPC)]_vars
    /\ [][UPC' < UPC => (UPC > 0 /\ UPC' = UPC - 1)]_vars
    /\ [](UPC \in 0..MaxUPC)

\* C19 witness: the hardware counted a packet between the read and the write
\* of one DecrementPktCount, and the write took the count down by one.
C19_Witness ==
    /\ pc = "ready" /\ evt.op = "DecrementPktCount" /\ evt.wrote = 1
    /\ Register > 0 /\ evt.count > Register /\ UPC = evt.count - 1

Between(a, b) == IF a = b THEN {} ELSE Path(a, b) \ {a, b}

\* C21: in every state either CommitPtr is null or the slot at CommitPtr has
\* its stop bit set, also when the ring has wrapped and when descriptors were
\* Put and Got with no Commit in between.
C21_CommitPtrStops ==
    CommitPtr # NULL => ring[CommitPtr].stop

\* C21 witness: with no Commit since, the ring has wrapped and a Put of the
\* open run has overwritten the slot CommitPtr names.
C21_Witness ==
    /\ evt.op = "Put" /\ evt.rc = XST_SUCCESS
    /\ CommitPtr = evt.bd /\ ring[CommitPtr].stop
    /\ Len(staged) >= 2 /\ staged[Len(staged)] = CommitPtr
    /\ ~Committed

\* C22: in every state where CommitPtr is not null, every slot strictly
\* between CommitPtr and LastPtr along next has its stop bit clear.
C22_RunInteriorFlows ==
    CommitPtr # NULL =>
        \A v \in Between(CommitPtr, LastPtr) : ~ring[v].stop

\* C22 witness: a run long enough to have an interior slot, whose stop bit a
\* later Put of the run has cleared.
C22_Witness ==
    /\ CommitPtr # NULL
    /\ Between(CommitPtr, LastPtr) # {}
    /\ \A v \in Between(CommitPtr, LastPtr) : ring[v].id # 0 /\ ~ring[v].stop
    /\ evt.op = "Put" /\ evt.rc = XST_SUCCESS

\* C23: in every state 0 <= A <= N; A is the number of successful Puts less
\* the number of successful Gets; when A > 0 it is the number of slots from
\* GetPtr up to and including LastPtr along next, the whole cycle when
\* A = N; and IsSgListEmpty answers true exactly when A = 0, that is when no
\* descriptor is Put and not yet Got.
C23_ActiveCount ==
    /\ [](/\ ActiveDescriptorCount \in 0..TotalDescriptorCount
          /\ ActiveDescriptorCount = Len(fifo)
          /\ ActiveDescriptorCount > 0 =>
                ActiveDescriptorCount = Cardinality(Path(GetPtr, LastPtr))
          /\ XDmaChannel_IsSgListEmpty <=> (fifo = <<>>))
    /\ [][/\ (evt'.op = "Put" /\ evt'.rc = XST_SUCCESS) =>
               /\ ActiveDescriptorCount' = ActiveDescriptorCount + 1
               /\ \A i \in DOMAIN fifo : fifo[i] # evt'.bd
          /\ (evt'.op = "Get" /\ evt'.rc = XST_SUCCESS) =>
               /\ ActiveDescriptorCount' = ActiveDescriptorCount - 1
               /\ fifo # <<>> /\ evt'.bd = Head(fifo)
          /\ ~(evt'.rc = XST_SUCCESS /\ evt'.op \in {"Put", "Get"}) =>
               ActiveDescriptorCount' = ActiveDescriptorCount]_vars

\* C23 witness: a full ring that has wrapped, so the slots from GetPtr to
\* LastPtr are the whole cycle and it does not begin on the first slot used.
C23_Witness ==
    /\ TotalDescriptorCount = MaxSlots
    /\ ActiveDescriptorCount = TotalDescriptorCount
    /\ GetPtr # FirstPutSlot
    /\ evt.op = "Put" /\ evt.rc = XST_SUCCESS
    /\ Path(GetPtr, LastPtr) = DOMAIN ring

\* C24: after creation the next pointers form one cycle of length
\* TotalDescriptorCount, and no later step (Put, Commit, Get, Start, Stop, a
\* refused CreateSgList) changes a next pointer or TotalDescriptorCount; the
\* copy a Put makes leaves the next pointer of the slot it writes as it was.
C24_RingSkeleton ==
    /\ [](TotalDescriptorCount # 0 =>
            /\ Cardinality(DOMAIN ring) = TotalDescriptorCount
            /\ \A v \in DOMAIN ring : P_TO_V(ring[v].next) \in DOMAIN ring
            /\ \A v \in DOMAIN ring :
                  Path(P_TO_V(ring[v].next), v) = DOMAIN ring)
    /\ [][TotalDescriptorCount # 0 =>
            /\ TotalDescriptorCount' = TotalDescriptorCount
            /\ DOMAIN ring' = DOMAIN ring
            /\ \A v \in DOMAIN ring : ring'[v].next = ring[v].next]_vars
    /\ [][(evt'.op = "Put" /\ evt'.rc = XST_SUCCESS) =>
            /\ ring'[evt'.bd].next = ring[evt'.bd].next
            /\ ring'[evt'.bd].next # evt'.arg.next
            /\ ring'[evt'.bd].id = evt'.arg.id]_vars

\* C24 witness: a Put has written a slot of a ring of the largest size, after
\* a Commit, and the slot still links to its successor while the caller's
\* descriptor carried another next pointer.
C24_Witness ==
    /\ evt.op = "Put" /\ evt.rc = XST_SUCCESS
    /\ TotalDescriptorCount = MaxSlots
    /\ Committed
    /\ ring[evt.bd].next # evt.arg.next
    /\ ring[evt.bd].id = evt.arg.id
    /\ PutPtr = P_TO_V(ring[evt.bd].next)

\* C25: in every state CommitPtr is null exactly when there is no staged run,
\* that is when no Put has succeeded since the last successful Commit or since
\* creation; and there is never more than one staged run: the descriptors
\* staged are one stretch of the ring that ends at LastPtr.
C25_CommitPtrMarksStagedRun ==
    /\ []((CommitPtr = NULL) <=> (staged = <<>>))
    /\ [](staged # <<>> =>
            /\ staged[Len(staged)] = LastPtr
            /\ Staged = Path(Head(staged), LastPtr)
            /\ \A i \in 1..(Len(staged) - 1) :
                  staged[i + 1] = P_TO_V(ring[staged[i]].next))
    /\ [][/\ (CommitPtr = NULL /\ CommitPtr' # NULL) =>
                (evt'.op = "Put" /\ evt'.rc = XST_SUCCESS)
          /\ (CommitPtr # NULL /\ CommitPtr' = NULL) =>
                (evt'.op = "Commit" /\ evt'.rc = XST_SUCCESS)]_vars

\* C25 witness: a second staged run of two descriptors is open after a
\* Commit, and CommitPtr is set.
C25_Witness ==
    /\ Committed
    /\ Len(staged) >= 2
    /\ CommitPtr # NULL
    /\ evt.op = "Put" /\ evt.rc = XST_SUCCESS

\* C26: a successful Put clears a stop bit, that of the slot LastPtr pointed
\* to before the Put, exactly when it is the third or a later Put of the
\* staged run; the first and the second Put of a run clear none, whether the
\* run is the first after creation or follows a Commit. After a run of three
\* the stop bit is set on the head and the tail of the run and clear between.
C26_ThirdPutClearsStop ==
    [][(evt'.op = "Put" /\ evt'.rc = XST_SUCCESS) =>
          /\ (\E v \in DOMAIN ring : ring[v].stop /\ ~ring'[v].stop)
                <=> (Len(staged) >= 2)
          /\ \A v \in DOMAIN ring :
                (ring[v].stop /\ ~ring'[v].stop) => v = LastPtr
          /\ (Len(staged) = 2 /\ Len(staged') = 3) =>
                /\ ring'[staged'[1]].stop
                /\ ~ring'[staged'[2]].stop
                /\ ring'[staged'[3]].stop]_vars

\* C27: a successful Put that finds CommitPtr null sets it to the value
\* LastPtr had before the Put, and one that finds it set leaves it; either
\* way, after the Put CommitPtr is not null, LastPtr is the old PutPtr, PutPtr
\* is next(old PutPtr), A has grown by one and GetPtr is unchanged.
C27_PutCursors ==
    [][(evt'.op = "Put" /\ evt'.rc = XST_SUCCESS) =>
          /\ CommitPtr = NULL => CommitPtr' = LastPtr
          /\ CommitPtr # NULL => CommitPtr' = CommitPtr
          /\ CommitPtr' # NULL
          /\ LastPtr' = PutPtr
          /\ PutPtr' = VirtPtr + (ring[PutPtr].next - PhyPtr)
          /\ ActiveDescriptorCount' = ActiveDescriptorCount + 1
          /\ GetPtr' = GetPtr]_vars

\* C27 witness: the Put that opens a run after a Commit has set CommitPtr to
\* the tail of before, the slot ahead of the one it wrote.
C27_Witness ==
    /\ evt.op = "Put" /\ evt.rc = XST_SUCCESS
    /\ staged = <<evt.bd>>
    /\ Committed
    /\ CommitPtr # NULL /\ CommitPtr # evt.bd
    /\ P_TO_V(ring[CommitPtr].next) = evt.bd
    /\ LastPtr = evt.bd

\* C28: after a successful Put the slot PutPtr pointed to has its stop bit
\* set, its status busy and its device status 0, and the rest of its control
\* word, its source, destination, length, id, flags and requested length are
\* those of the caller's descriptor; the caller's descriptor itself now
\* carries the stop bit, the busy status and device status 0. No other slot
\* is changed, but for the stop bit of the slot LastPtr pointed to.
C28_PutWritesSlot ==
    [][(evt'.op = "Put" /\ evt'.rc = XST_SUCCESS) =>
          /\ evt'.bd = PutPtr
          /\ ring'[PutPtr].stop /\ ring'[PutPtr].busy
          /\ ring'[PutPtr].devStatus = 0
          /\ ring'[PutPtr].last = evt'.arg.last
          /\ ring'[PutPtr].source = evt'.arg.source
          /\ ring'[PutPtr].destination = evt'.arg.destination
          /\ ring'[PutPtr].length = evt'.arg.length
          /\ ring'[PutPtr].id = evt'.arg.id
          /\ ring'[PutPtr].locked = evt'.arg.locked
          /\ ring'[PutPtr].rqstedLength = evt'.arg.rqstedLength
          /\ ~evt'.arg.stop /\ ~evt'.arg.busy /\ evt'.arg.devStatus # 0
          /\ evt'.src = [evt'.arg EXCEPT !.stop = TRUE, !.busy = TRUE,
                                         !.devStatus = 0]
          /\ \A v \in DOMAIN ring \ {PutPtr} :
                IF v = LastPtr
                THEN ring'[v] = [ring[v] EXCEPT !.stop = ring'[v].stop]
                ELSE ring'[v] = ring[v]]_vars

\* C28 witness: the third Put of a run has written a descriptor that ends a
\* packet and carries the locked flag, and has cleared the stop bit of the
\* tail of before.
C28_Witness ==
    /\ evt.op = "Put" /\ evt.rc = XST_SUCCESS
    /\ evt.arg.last /\ evt.arg.locked
    /\ ring[evt.bd].last /\ ring[evt.bd].locked
    /\ ring[evt.bd].stop /\ ring[evt.bd].busy
    /\ ring[evt.bd].source = 2 /\ ring[evt.bd].rqstedLength = 5
    /\ Len(staged) = 3 /\ staged[3] = evt.bd
    /\ ~ring[staged[2]].stop

\* the descriptor after the one the hardware processed last
AfterLastProcessed == VirtPtr + (ring[VirtPtr + (BDA - PhyPtr)].next - PhyPtr)

C29_StartWriteOrder ==
    /\ [][(pc = "ready" /\ pc' = "SgStart_second") =>
            /\ SWCR' = [SWCR EXCEPT !.sg_enable = TRUE]
            /\ SWCR'.sg_enable /\ SWCR'.rest = SWCR.rest
            /\ DMACR' = DMACR]_vars
    /\ [][(pc = "SgStart_second" /\ pc' = "ready") =>
            /\ SWCR.sg_enable /\ SWCR' = SWCR
            /\ DMACR' = [DMACR EXCEPT !.sg_disable = FALSE]
            /\ ~DMACR'.sg_disable /\ DMACR'.rest = DMACR.rest
            /\ evt'.op = "Start" /\ evt'.rc = XST_SUCCESS]_vars
    /\ [][(evt'.op = "Start" /\ evt'.rc = XST_SUCCESS) =>
            pc = "SgStart_second"]_vars
    /\ [][(evt'.op = "Start" /\ evt'.rc # XST_SUCCESS) =>
            (SWCR' = SWCR /\ DMACR' = DMACR /\ BDA' = BDA)]_vars
    /\ [][(~SWCR.sg_enable /\ SWCR'.sg_enable) => pc' = "SgStart_second"]_vars
    /\ [](pc = "SgStart_second" => SWCR.sg_enable)

\* C29 witness: a Start that found scatter gather disabled in both registers
\* has made its first write, and the DMA control register still holds the
\* disable bit.
C29_Witness ==
    /\ pc = "SgStart_second"
    /\ evt.op = "SgStart_first"
    /\ SWCR.sg_enable /\ DMACR.sg_disable
    /\ SWCR.rest = 1 /\ DMACR.rest = 1

\* C31: every error return of Start (NoList, ListEmpty, IsStarted, NoData,
\* BdNotCommitted) leaves the BDA, software control and DMA control registers
\* unwritten, and Start, whatever it returns, leaves PutPtr, GetPtr, LastPtr,
\* CommitPtr, A, ActivePacketCount, Committed and every descriptor as they
\* were.
C31_StartFrame ==
    [][(evt'.op = "Start") =>
          /\ (evt'.rc # XST_SUCCESS) =>
                /\ evt'.rc \in {XST_DMA_SG_NO_LIST, XST_DMA_SG_LIST_EMPTY,
                                XST_DMA_SG_IS_STARTED, XST_DMA_SG_NO_DATA,
                                XST_DMA_SG_BD_NOT_COMMITTED}
                /\ BDA' = BDA /\ SWCR' = SWCR /\ DMACR' = DMACR
          /\ (TotalDescriptorCount = 0 \/ ActiveDescriptorCount = 0
                \/ hwBd # NULL) =>
                (BDA' = BDA /\ SWCR' = SWCR /\ DMACR' = DMACR)
          /\ PutPtr' = PutPtr /\ GetPtr' = GetPtr /\ LastPtr' = LastPtr
          /\ CommitPtr' = CommitPtr
          /\ ActiveDescriptorCount' = ActiveDescriptorCount
          /\ ActivePacketCount' = ActivePacketCount
          /\ Committed' = Committed
          /\ TotalDescriptorCount' = TotalDescriptorCount
          /\ ring' = ring]_vars

\* C31 witness: Start has refused with IsStarted while the engine had a
\* descriptor in flight and the stop bit loaded in the DMA control register,
\* and the registers are as the engine left them.
C31_Witness ==
    /\ evt.op = "Start" /\ evt.rc = XST_DMA_SG_IS_STARTED
    /\ hwBd # NULL
    /\ SWCR.sg_enable /\ DMACR.sg_disable
    /\ BDA # 0
    /\ CommitPtr # NULL /\ ActiveDescriptorCount >= 2

\* C34, as claimed: while the locked flag of a slot is set no operation of
\* the driver changes any field of the slot: Put neither copies into it nor
\* clears its stop bit as the previous tail, and Commit does not clear its
\* stop bit as the slot at CommitPtr.
C34_LockedSlotUntouched ==
    [][(evt'.op \in {"Put", "Commit", "Get", "CreateSgList"}) =>
          \A v \in DOMAIN ring : ring[v].locked => ring'[v] = ring[v]]_vars

\* C34, amended: while the locked flag of a slot is set Put never copies a
\* descriptor into it; the only change the driver makes to a locked slot is to
\* clear its stop bit, in Put when the slot is the previous tail and in Commit
\* when it is the slot at CommitPtr.
C34_LockedSlotNotOverwritten ==
    [][/\ (evt'.op = "Put" /\ evt'.rc = XST_SUCCESS) => ~ring[PutPtr].locked
       /\ (evt'.op \in {"Put", "Commit", "Get", "CreateSgList"}
             /\ ring' # ring) =>
             \A v \in DOMAIN ring : (ring[v].locked /\ ring'[v] # ring[v]) =>
                 /\ ring'[v] = [ring[v] EXCEPT !.stop = FALSE]
                 /\ ring[v].stop
                 /\ \/ evt'.op = "Put" /\ v = LastPtr /\ v # evt'.bd
                    \/ evt'.op = "Commit" /\ v = CommitPtr]_vars

\* C34 witness: a Commit has cleared the stop bit of a locked slot, the
\* previous tail that the first Put of the run captured as CommitPtr.
C34_Witness ==
    /\ evt.op = "Commit" /\ evt.rc = XST_SUCCESS
    /\ ring[evt.bd].locked /\ ~ring[evt.bd].stop
    /\ evt.bd # LastPtr
    /\ evt.bd \in pinned

\* C33: when Start runs in an interrupt between two statements of a Put in
\* progress (after the copy into the slot, after the stop bit of the previous
\* tail is cleared, after the count of active descriptors is raised, after
\* CommitPtr is set, or between the updates of LastPtr and PutPtr), it never
\* returns Success when the descriptor the engine would run next belongs to
\* the run being staged.
C33_StartInsidePut ==
    [][(pc \in PutPositions /\ evt'.op = "Start"
          /\ StartWouldRun \in Staged) =>
          evt'.rc # XST_SUCCESS]_vars

\* C35: the address map is a bijection on the descriptor region, for every
\* MemoryPtr and PhyPtr given to CreateSgList: V_TO_P(v) is
\* PhyPtr + (v - VirtPtr) and P_TO_V(V_TO_P(v)) = v for every descriptor v of
\* the list, V_TO_P(P_TO_V(p)) = p for every hardware address p of a
\* descriptor, the null address maps to null both ways, and the next field of
\* every descriptor translates to a descriptor of the list.
C35_AddressMapBijection ==
    /\ evt.op = "V_TO_P" =>
          IF evt.bd = NULL32
          THEN evt.arg = NULL32
          ELSE /\ evt.arg = Add32(PhyPtr, Sub32(evt.bd, VirtPtr))
               /\ P_TO_V32(evt.arg) = evt.bd
    /\ evt.op = "P_TO_V" =>
          IF evt.bd = NULL32
          THEN evt.arg = NULL32
          ELSE /\ evt.bd \in HwSlots32 => V_TO_P32(evt.arg) = evt.bd
               /\ (\E v \in DOMAIN ring : ring[v].next = evt.bd) =>
                     evt.arg \in DOMAIN ring

\* the slot k steps along next from v
RECURSIVE Adv(_, _)
Adv(v, k) == IF k = 0 THEN v ELSE Adv(P_TO_V(ring[v].next), k - 1)

\* C32: from an empty list with CommitPtr null, k successful Puts
\* (1 <= k <= TotalDescriptorCount), one Commit and k successful Gets bring
\* ActiveDescriptorCount back to 0 and CommitPtr back to null and leave the
\* cursors as they were, except that LastPtr and PutPtr have each moved
\* exactly k slots along next.
C32_RoundRestoresCursors ==
    round.phase = "done" =>
        /\ ActiveDescriptorCount = 0
        /\ CommitPtr = NULL
        /\ GetPtr = round.GetPtr
        /\ PutPtr = Adv(round.PutPtr, round.k)
        /\ LastPtr = Adv(round.LastPtr, round.k)

\* C32 as the code has it: after the round ActiveDescriptorCount is 0 and
\* CommitPtr is null, PutPtr and GetPtr have each moved exactly k slots along
\* next, and LastPtr is the slot of the last Put, k - 1 slots after the
\* PutPtr the round began with.
C32_RoundAdvancesCursors ==
    round.phase = "done" =>
        /\ round.k \in 1..TotalDescriptorCount
        /\ ActiveDescriptorCount = 0
        /\ CommitPtr = NULL
        /\ PutPtr = Adv(round.PutPtr, round.k)
        /\ GetPtr = Adv(round.GetPtr, round.k)
        /\ LastPtr = Adv(round.PutPtr, round.k - 1)

C32_Witness ==
    /\ round.phase = "done"
    /\ round.k = 2
    /\ TotalDescriptorCount = 3
    /\ round.LastPtr # round.PutPtr

====
